---- MODULE Spec2Model ----
(***************************************************************************)
(* Model of the Chronos FFI (src/ffi/chronos_ffi.c): wall clock reads and  *)
(* conversions between Unix timestamps and civil date/time fields.         *)
(*                                                                         *)
(* A time_t (signed 64 bit) does not fit a TLC integer, so a time_t value  *)
(* n is held in mixed radix as the record [e, d, s] with                   *)
(*     n = (e * EraDays + d) * DaySecs + s,  0 <= d < EraDays,             *)
(*                                           0 <= s < DaySecs,             *)
(* e counting 400-year Gregorian cycles from 1970-01-01T00:00:00Z.  The    *)
(* encoding is one-to-one, so equality and order of time_t values are      *)
(* equality and lexicographic order of the records.                        *)
(***************************************************************************)
EXTENDS Integers, Sequences, FiniteSets, TLC

VARIABLES op, args, ret

vars == <<op, args, ret>>

\* ------------------------------------------------------------------------
\* Bounds of the model
\* ------------------------------------------------------------------------

\* seconds explored on either side of every anchor instant
Window == 2

\* ------------------------------------------------------------------------
\* Calendar and machine constants
\* ------------------------------------------------------------------------

EraDays == 146097
DaySecs == 86400
Int32Max == 2147483647
Int32Min == -Int32Max - 1
NanosMax == 999999999

\* ------------------------------------------------------------------------
\* time_t arithmetic
\* ------------------------------------------------------------------------

TNorm(e, dd, ss) ==
    LET d1 == dd + (ss \div DaySecs)
    IN  [e |-> e + (d1 \div EraDays), d |-> d1 % EraDays, s |-> ss % DaySecs]

\* the time_t of a small integer
T(n) == TNorm(0, 0, n)

TAdd(t, n) == TNorm(t.e, t.d, t.s + n)

TLess(a, b) ==
    \/ a.e < b.e
    \/ a.e = b.e /\ a.d < b.d
    \/ a.e = b.e /\ a.d = b.d /\ a.s < b.s

TLeq(a, b) == a = b \/ TLess(a, b)

Int64Max == [e |-> 730692561, d |-> 82883, s |-> 55807]
Int64Min == [e |-> -730692562, d |-> 63213, s |-> 30592]

\* (time_t)-1, the failure value of time(), timegm() and mktime()
TimeFail == T(-1)

\* ------------------------------------------------------------------------
\* struct tm and the platform's calendar functions
\* ------------------------------------------------------------------------

NoTm == [tm_year |-> 0, tm_mon |-> 0, tm_mday |-> 0, tm_hour |-> 0,
         tm_min |-> 0, tm_sec |-> 0, tm_isdst |-> 0]

\* Proleptic Gregorian year of day doe of a 400-year cycle that starts on
\* March 1st, as the year of the cycle (0..399), with the day of that year.
YearOfEra(doe) ==
    (doe - (doe \div 1460) + (doe \div 36524) - (doe \div 146096)) \div 365

DayOfYear(doe) ==
    LET yoe == YearOfEra(doe)
    IN  doe - (365 * yoe + (yoe \div 4) - (yoe \div 100))

\* The civil date of a time_t: cycle c and year r of the cycle (the year is
\* 400 * c + r), month 1..12, day 1..31.
CivilOf(t) ==
    LET z   == t.d + 135080
        era == t.e + 4 + (z \div EraDays)
        doe == z % EraDays
        yoe == YearOfEra(doe)
        doy == DayOfYear(doe)
        mp  == (5 * doy + 2) \div 153
        m   == IF mp < 10 THEN mp + 3 ELSE mp - 9
        y   == yoe + (IF m <= 2 THEN 1 ELSE 0)
    IN  [c |-> era + (y \div 400), r |-> y % 400, month |-> m,
         day |-> doy - ((153 * mp + 2) \div 5) + 1]

\* does year 400 * c + r, less 1900, fit the int tm_year
TmYearFits(c, r) ==
    /\ \/ c < 5368713
       \/ c = 5368713 /\ r <= 347
    /\ \/ c > -5368705
       \/ c = -5368705 /\ r >= 252

\* year 400 * c + r less 1900, for a year that fits
TmYearOf(c, r) ==
    IF c >= 5 THEN 400 * (c - 5) + (r + 100)
              ELSE 400 * (c - 4) + (r - 300)

\* gmtime_r: NULL (ok = FALSE) when the year does not fit tm_year
gmtime_r(t) ==
    LET cv == CivilOf(t)
    IN  IF TmYearFits(cv.c, cv.r)
        THEN [ok |-> TRUE,
              tm |-> [tm_year  |-> TmYearOf(cv.c, cv.r),
                      tm_mon   |-> cv.month - 1,
                      tm_mday  |-> cv.day,
                      tm_hour  |-> t.s \div 3600,
                      tm_min   |-> (t.s % 3600) \div 60,
                      tm_sec   |-> t.s % 60,
                      tm_isdst |-> 0]]
        ELSE [ok |-> FALSE, tm |-> NoTm]

\* The time_t that the fields of a struct tm denote in UTC, fields out of
\* range carried over.
TimeOfFields(tm) ==
    LET mon  == tm.tm_mon % 12
        \* the year counted from March: January and February belong to
        \* the year before
        a    == tm.tm_year \div 400
        b    == (tm.tm_year % 400) + (tm.tm_mon \div 12) + 300
                - (IF mon < 2 THEN 1 ELSE 0)
        era  == a + 4 + (b \div 400)
        yoe  == b % 400
        mp   == IF mon < 2 THEN mon + 10 ELSE mon - 2
        doy  == ((153 * mp + 2) \div 5) + tm.tm_mday - 1
        doe  == yoe * 365 + (yoe \div 4) - (yoe \div 100) + doy
    IN  TNorm(era - 4, doe - 135080,
              tm.tm_hour * 3600 + tm.tm_min * 60 + tm.tm_sec)

\* timegm: (time_t)-1 when the normalized fields do not fit a struct tm
timegm(tm) ==
    LET t == TimeOfFields(tm)
    IN  IF gmtime_r(t).ok THEN t ELSE TimeFail

\* ------------------------------------------------------------------------
\* The host's local time zone: the operating system's zone table, reduced
\* to a standard offset and at most one daylight-saving period
\* [dstStart, dstEnd) during which the offset is std + dst.
\* ------------------------------------------------------------------------

ZoneUTC == [name |-> "UTC", std |-> 0, dst |-> 0,
            dstStart |-> T(0), dstEnd |-> T(0)]

ZoneKolkata == [name |-> "Asia/Kolkata", std |-> 19800, dst |-> 0,
                dstStart |-> T(0), dstEnd |-> T(0)]

\* daylight saving from 2024-03-31T01:00:00Z to 2024-10-27T01:00:00Z
ZoneBerlin == [name |-> "Europe/Berlin", std |-> 3600, dst |-> 3600,
               dstStart |-> T(1711846800), dstEnd |-> T(1729990800)]

\* daylight saving from 2024-03-10T07:00:00Z to 2024-11-03T06:00:00Z
ZoneNewYork == [name |-> "America/New_York", std |-> -18000, dst |-> 3600,
                dstStart |-> T(1710054000), dstEnd |-> T(1730613600)]

Zones == {ZoneUTC, ZoneKolkata, ZoneBerlin, ZoneNewYork}

InDst(z, t) == z.dst # 0 /\ TLeq(z.dstStart, t) /\ TLess(t, z.dstEnd)

\* seconds to add to UTC to obtain the zone's local time at instant t
UtcOffsetAt(z, t) == z.std + (IF InDst(z, t) THEN z.dst ELSE 0)

\* localtime_r: the UTC decomposition of the shifted instant, tm_isdst
\* telling whether daylight saving is in effect
localtime_r(z, t) ==
    LET g == gmtime_r(TAdd(t, UtcOffsetAt(z, t)))
    IN  IF g.ok
        THEN [ok |-> TRUE,
              tm |-> [g.tm EXCEPT !.tm_isdst = IF InDst(z, t) THEN 1 ELSE 0]]
        ELSE g

\* mktime: the fields read as local time, under the zone's standard offset
\* when tm_isdst is 0 and under its daylight-saving offset when tm_isdst is
\* positive (a zone without daylight saving has the standard offset only)
mktime(z, tm) ==
    LET off == z.std + (IF tm.tm_isdst > 0 THEN z.dst ELSE 0)
        t   == TAdd(TimeOfFields(tm), -off)
    IN  IF localtime_r(z, t).ok THEN t ELSE TimeFail

\* ------------------------------------------------------------------------
\* C integer conversions
\* ------------------------------------------------------------------------

\* int + int overflows
IntAddOverflows(a, b) ==
    \/ b > 0 /\ a > Int32Max - b
    \/ b < 0 /\ a < Int32Min - b

\* the two's complement result of an overflowing int + int
IntAddWrapped(a, b) ==
    IF b > 0 THEN (a - Int32Max) + (b - Int32Max) - 2
             ELSE (a + Int32Max) + (b + Int32Max) + 2

\* Signed overflow is undefined: the build either wraps or traps.
IntAdd(a, b) ==
    IF IntAddOverflows(a, b)
    THEN {[trap |-> FALSE, val |-> IntAddWrapped(a, b)],
          [trap |-> TRUE, val |-> 0]}
    ELSE {[trap |-> FALSE, val |-> a + b]}

ToUInt8(x) == x % 256

\* (int32_t)(a - b) of two time_t values less than 2^31 seconds apart
TimeDiffInt32(a, b) ==
    ((a.e - b.e) * EraDays + (a.d - b.d)) * DaySecs + (a.s - b.s)

\* ------------------------------------------------------------------------
\* Results handed to the caller
\* ------------------------------------------------------------------------

NoDt == [year |-> 0, month |-> 0, day |-> 0, hour |-> 0, minute |-> 0,
         second |-> 0, nanosecond |-> 0]

DtOf(year, month, day, hour, minute, second, nanosecond) ==
    [year |-> year, month |-> month, day |-> day, hour |-> hour,
     minute |-> minute, second |-> second, nanosecond |-> nanosecond]

NoRet == [status |-> "none", msg |-> "", seconds |-> T(0), nanos |-> 0,
          dt |-> NoDt, offset |-> 0]

mk_io_error(msg) == [NoRet EXCEPT !.status = "error", !.msg = msg]

\* the process aborted on a trapping overflow; nothing is returned
Trapped == [NoRet EXCEPT !.status = "trap"]

\* the innermost pair built in the wrong order
mk_datetime_tuple_swapped(year, month, day, hour, minute, second, nanosecond) ==
    [year |-> year, month |-> month, day |-> day, hour |-> hour,
     minute |-> minute, second |-> nanosecond, nanosecond |-> second]

mk_datetime_tuple(year, month, day, hour, minute, second, nanosecond) ==
    [year |-> year, month |-> month, day |-> day, hour |-> hour,
     minute |-> minute, second |-> second, nanosecond |-> nanosecond]

OkInstant(seconds, nanos) ==
    [NoRet EXCEPT !.status = "ok", !.seconds = seconds, !.nanos = nanos]

OkDateTime(dt) == [NoRet EXCEPT !.status = "ok", !.dt = dt]

OkOffset(o) == [NoRet EXCEPT !.status = "ok", !.offset = o]

\* ------------------------------------------------------------------------
\* The exported functions, each as the set of results it can return
\* ------------------------------------------------------------------------

chronos_now(clockOk, tv_sec, tv_nsec) ==
    IF ~clockOk THEN {mk_io_error("clock_gettime failed")}
                ELSE {OkInstant(tv_sec, tv_nsec)}

\* tm_mon handed over as it is, counted from 0
TupleOfTmMonthFromZero(tm, nanos) ==
    {IF year.trap THEN Trapped
     ELSE OkDateTime(mk_datetime_tuple(year.val,
                                       ToUInt8(tm.tm_mon),
                                       ToUInt8(tm.tm_mday),
                                       ToUInt8(tm.tm_hour),
                                       ToUInt8(tm.tm_min),
                                       ToUInt8(tm.tm_sec),
                                       nanos))
     : year \in IntAdd(tm.tm_year, 1900)}

\* the tuple built from a struct tm
TupleOfTm(tm, nanos) ==
    {IF year.trap THEN Trapped
     ELSE OkDateTime(mk_datetime_tuple(year.val,
                                       ToUInt8(tm.tm_mon + 1),
                                       ToUInt8(tm.tm_mday),
                                       ToUInt8(tm.tm_hour),
                                       ToUInt8(tm.tm_min),
                                       ToUInt8(tm.tm_sec),
                                       nanos))
     : year \in IntAdd(tm.tm_year, 1900)}

\* the result of gmtime_r used without the NULL test
chronos_to_utc_unchecked(seconds, nanos) ==
    TupleOfTm(gmtime_r(seconds).tm, nanos)

chronos_to_utc(seconds, nanos) ==
    LET g == gmtime_r(seconds)
    IN  IF ~g.ok THEN {mk_io_error("gmtime_r failed")}
                 ELSE TupleOfTm(g.tm, nanos)

chronos_to_local(z, seconds, nanos) ==
    LET l == localtime_r(z, seconds)
    IN  IF ~l.ok THEN {mk_io_error("localtime_r failed")}
                 ELSE TupleOfTm(l.tm, nanos)

chronos_from_utc(year, month, day, hour, minute, second, nanosecond) ==
    {IF tm_year.trap THEN Trapped
     ELSE LET t == timegm([tm_year |-> tm_year.val, tm_mon |-> month - 1,
                           tm_mday |-> day, tm_hour |-> hour,
                           tm_min |-> minute, tm_sec |-> second,
                           tm_isdst |-> 0])
          IN  IF t = TimeFail THEN mk_io_error("timegm failed")
                              ELSE OkInstant(t, nanosecond)
     : tm_year \in IntAdd(year, -1900)}

\* time(NULL): (time_t)-1 when the clock cannot be read
time(clockOk, tv_sec) == IF clockOk THEN tv_sec ELSE TimeFail

chronos_get_timezone_offset(z, clockOk, tv_sec) ==
    LET now      == time(clockOk, tv_sec)
        local_tm == localtime_r(z, now)
        utc_tm   == gmtime_r(now)
    IN  IF ~local_tm.ok THEN {mk_io_error("localtime_r failed")}
        ELSE IF ~utc_tm.ok THEN {mk_io_error("gmtime_r failed")}
        ELSE LET local_as_local == mktime(z, local_tm.tm)
                 utc_as_local   == mktime(z, utc_tm.tm)
             IN  {OkOffset(TimeDiffInt32(local_as_local, utc_as_local))}

\* ------------------------------------------------------------------------
\* Inputs the callers and the platform supply
\* ------------------------------------------------------------------------

\* 2024-02-29T00:00:00Z and 2023-03-01T00:00:00Z
Leap2024 == T(1709164800)
March2023 == T(1677628800)

\* 100 years of 31556952 seconds after and before the epoch
Plus100Years == [e |-> 0, d |-> 36524, s |-> 21600]
Minus100Years == [e |-> -1, d |-> 109572, s |-> 64800]

\* 2147485547-12-31T23:59:59Z = 67768036191676799 and
\* -2147481748-01-01T00:00:00Z = -67768040609740800
GmtimeMax == [e |-> 5368708, d |-> 138060, s |-> 86399]
GmtimeMin == [e |-> -5368710, d |-> 102998, s |-> 0]

\* 2147483648-01-01T00:00:00Z = 67767976233532800 and
\* 2147483796-02-29T00:00:00Z = 67767980909068800
FirstYearPastInt32 == [e |-> 5368704, d |-> 28489, s |-> 0]
LeapDayPastInt32 == [e |-> 5368704, d |-> 82604, s |-> 0]

\* 2024-01-12 and 2024-07-03, outside and inside daylight saving
Winter2024 == T(1705000000)
Summer2024 == T(1720000000)

Anchors ==
    {T(0), Leap2024, March2023, Plus100Years, Minus100Years, GmtimeMax,
     GmtimeMin, FirstYearPastInt32, LeapDayPastInt32, Int64Max, Int64Min,
     Winter2024, Summer2024, ZoneBerlin.dstStart, ZoneBerlin.dstEnd,
     ZoneNewYork.dstStart}

\* the Int64 seconds the callers pass
Instants ==
    {t \in {TAdd(a, k) : a \in Anchors, k \in -Window..Window} :
        TLeq(Int64Min, t) /\ TLeq(t, Int64Max)}

\* the UInt32 nanoseconds the callers pass, the last one past the valid range
NanosInputs == {0, 1, NanosMax, NanosMax + 1}

\* what the real-time clock reads
ClockSeconds ==
    {TAdd(a, k) : a \in {Winter2024, Summer2024, ZoneBerlin.dstStart,
                         ZoneBerlin.dstEnd, ZoneNewYork.dstStart,
                         ZoneNewYork.dstEnd},
                  k \in -Window..Window}

ClockNanos == {0, NanosMax}

YearInputs ==
    {1969, 1970, 1971, 2023, 2024, 2100, 0, -1, Int32Max, Int32Min,
     Int32Min + 1899, Int32Min + 1900}
MonthInputs == {0, 1, 2, 12, 13}
DayInputs == {0, 1, 29, 31, 32}
HourInputs == {0, 23, 24}
MinuteInputs == {0, 59, 60}
SecondInputs == {0, 59, 60, 255}

\* tz is the zone the host is configured with when the call reads it
NoArgs == [seconds |-> T(0), nanos |-> 0, dt |-> NoDt, clockOk |-> TRUE,
           tz |-> ZoneUTC]

\* ------------------------------------------------------------------------
\* The state machine: the functions keep no state, so a call starts from the
\* idle caller (op = "none") and leaves its inputs and its result in the
\* state until the caller takes them.
\* ------------------------------------------------------------------------

Init ==
    /\ op = "none"
    /\ args = NoArgs
    /\ ret = NoRet

Now ==
    \E clockOk \in BOOLEAN, tv_sec \in ClockSeconds, tv_nsec \in ClockNanos :
        /\ op = "none"
        /\ op' = "now"
        /\ args' = [NoArgs EXCEPT !.clockOk = clockOk, !.seconds = tv_sec,
                                  !.nanos = tv_nsec]
        /\ ret' \in chronos_now(clockOk, tv_sec, tv_nsec)

ToUtc ==
    \E seconds \in Instants, nanos \in NanosInputs :
        /\ op = "none"
        /\ op' = "to_utc"
        /\ args' = [NoArgs EXCEPT !.seconds = seconds, !.nanos = nanos]
        /\ ret' \in chronos_to_utc(seconds, nanos)

ToLocal ==
    \E tz \in Zones, seconds \in Instants, nanos \in NanosInputs :
        /\ op = "none"
        /\ op' = "to_local"
        /\ args' = [NoArgs EXCEPT !.tz = tz, !.seconds = seconds,
                                  !.nanos = nanos]
        /\ ret' \in chronos_to_local(tz, seconds, nanos)

FromUtc ==
    \E year \in YearInputs, month \in MonthInputs, day \in DayInputs,
       hour \in HourInputs, minute \in MinuteInputs, second \in SecondInputs,
       nanosecond \in {0, NanosMax} :
        /\ op = "none"
        /\ op' = "from_utc"
        /\ args' = [NoArgs EXCEPT !.dt = DtOf(year, month, day, hour, minute,
                                             second, nanosecond)]
        /\ ret' \in chronos_from_utc(year, month, day, hour, minute, second,
                                     nanosecond)

GetTimezoneOffset ==
    \E tz \in Zones, clockOk \in BOOLEAN, tv_sec \in ClockSeconds :
        /\ op = "none"
        /\ op' = "get_timezone_offset"
        /\ args' = [NoArgs EXCEPT !.tz = tz, !.clockOk = clockOk,
                                  !.seconds = tv_sec]
        /\ ret' \in chronos_get_timezone_offset(tz, clockOk, tv_sec)

\* the caller takes the result and is free to call again
Return ==
    /\ op # "none"
    /\ op' = "none"
    /\ args' = NoArgs
    /\ ret' = NoRet

Next == Now \/ ToUtc \/ ToLocal \/ FromUtc \/ GetTimezoneOffset \/ Return

Spec == Init /\ [][Next]_vars

\* ------------------------------------------------------------------------
\* Properties
\* ------------------------------------------------------------------------

\* chronos_from_utc applied to the fields of a tuple
FromUtcOf(dt) ==
    chronos_from_utc(dt.year, dt.month, dt.day, dt.hour, dt.minute,
                     dt.second, dt.nanosecond)

IsLeapYear(y) == y % 4 = 0 /\ (y % 100 # 0 \/ y % 400 = 0)

DaysInMonth(y, m) ==
    IF m = 2 THEN (IF IsLeapYear(y) THEN 29 ELSE 28)
    ELSE IF m \in {4, 6, 9, 11} THEN 30 ELSE 31

\* every field of the tuple lies in its nominal range
Nominal(dt) ==
    /\ dt.month \in 1..12
    /\ dt.day \in 1..DaysInMonth(dt.year, dt.month)
    /\ dt.hour \in 0..23
    /\ dt.minute \in 0..59
    /\ dt.second \in 0..59

EpochDt == DtOf(1970, 1, 1, 0, 0, 0, 0)
PreEpochDt == DtOf(1969, 12, 31, 23, 59, 59, 0)

\* C1: round trip over UTC: for an Instant within 100 years of the epoch and
\* with valid nanoseconds, the fields chronos_to_utc returns, fed to
\* chronos_from_utc, succeed and give back exactly the Instant.
C1_RoundTripUtc ==
    (/\ op = "to_utc"
     /\ ret.status = "ok"
     /\ args.nanos <= NanosMax
     /\ TLeq(Minus100Years, args.seconds)
     /\ TLeq(args.seconds, Plus100Years))
    => \A r \in FromUtcOf(ret.dt) : r = OkInstant(args.seconds, args.nanos)

\* C2: the offset returned is local minus UTC under the rules in effect at
\* the instant read, daylight saving included: positive east of UTC,
\* negative west of it, zero for UTC.
C2_OffsetIsLocalMinusUtc ==
    (op = "get_timezone_offset" /\ args.clockOk /\ ret.status = "ok")
    => ret.offset = UtcOffsetAt(args.tz, args.seconds)

\* C3: chronos_from_utc of 1969-12-31T23:59:59 succeeds with the Instant
\* {-1, 0}.
C3_PreEpochInverse ==
    (op = "from_utc" /\ args.dt = PreEpochDt) => ret = OkInstant(T(-1), 0)

\* C4 as stated: chronos_to_utc never returns a failure outcome for an
\* Instant with any 64-bit seconds and valid nanoseconds.
C4_ToUtcNeverFails ==
    (op = "to_utc" /\ args.nanos <= NanosMax) => ret.status # "error"

\* C4 amended: chronos_to_utc returns a failure outcome, "gmtime_r failed",
\* exactly for the seconds before -67768040609740800 or after
\* 67768036191676799, the instants whose year less 1900 does not fit the
\* int tm_year; for every other Instant it returns no failure.
C4_ToUtcFailsOnlyOutsideTmRange ==
    op = "to_utc"
    => /\ ret.status = "error"
          <=> ~(TLeq(GmtimeMin, args.seconds) /\ TLeq(args.seconds, GmtimeMax))
       /\ ret.status = "error" => ret = mk_io_error("gmtime_r failed")

C4_Witness ==
    /\ op = "to_utc"
    /\ args.seconds = TAdd(GmtimeMax, 1)
    /\ args.nanos = 0
    /\ ret.status = "error"

\* C5: 2024-02-29T00:00:00Z decomposes to 2024, 2, 29; the fields
\* 2023-02-29 either fail or give the instant of 2023-03-01; and no instant
\* decomposes to February 29 of a year that is not a Gregorian leap year.
C5_LeapYear ==
    /\ (op = "to_utc" /\ args.seconds = Leap2024 /\ ret.status = "ok")
       => (ret.dt.year = 2024 /\ ret.dt.month = 2 /\ ret.dt.day = 29)
    /\ (op = "from_utc" /\ [args.dt EXCEPT !.nanosecond = 0]
                            = DtOf(2023, 2, 29, 0, 0, 0, 0))
       => (ret.status = "error" \/ ret.seconds = March2023)
    /\ (op = "to_utc" /\ ret.status = "ok"
                      /\ ret.dt.month = 2 /\ ret.dt.day = 29)
       => IsLeapYear(ret.dt.year)

\* C6: a successful conversion carries the nanoseconds through unchanged
\* and the nanoseconds influence nothing else of the result: the result is
\* the one for nanoseconds 0 but for its nanosecond field.
C6_NanosecondPreservation ==
    /\ (op = "to_utc" /\ ret.status = "ok" /\ args.nanos <= NanosMax)
       => /\ ret.dt.nanosecond = args.nanos
          /\ [ret EXCEPT !.dt.nanosecond = 0]
                \in chronos_to_utc(args.seconds, 0)
    /\ (op = "to_local" /\ ret.status = "ok" /\ args.nanos <= NanosMax)
       => /\ ret.dt.nanosecond = args.nanos
          /\ [ret EXCEPT !.dt.nanosecond = 0]
                \in chronos_to_local(args.tz, args.seconds, 0)
    /\ (op = "from_utc" /\ ret.status = "ok"
                        /\ args.dt.nanosecond <= NanosMax)
       => /\ ret.nanos = args.dt.nanosecond
          /\ [ret EXCEPT !.nanos = 0]
                \in FromUtcOf([args.dt EXCEPT !.nanosecond = 0])

C6_Witness ==
    /\ op = "to_utc"
    /\ args.seconds = TAdd(Leap2024, 1)
    /\ args.nanos = NanosMax
    /\ ret.status = "ok"
    /\ ret.dt.nanosecond = NanosMax
    /\ ret.dt.second = 1

\* C7: chronos_to_utc of {0, 0} returns 1970-01-01T00:00:00.0 and
\* chronos_from_utc of those fields returns {0, 0}.
C7_EpochBoundary ==
    /\ (op = "to_utc" /\ args.seconds = T(0) /\ args.nanos = 0)
       => ret = OkDateTime(EpochDt)
    /\ (op = "from_utc" /\ args.dt = EpochDt) => ret = OkInstant(T(0), 0)

C7_Witness ==
    /\ op = "to_utc"
    /\ args.seconds = T(0)
    /\ args.nanos = 0
    /\ ret.status = "ok"
    /\ FromUtcOf(ret.dt) = {OkInstant(T(0), 0)}

\* C8: chronos_get_timezone_offset returns a success with an offset only
\* when the clock read and both decompositions succeeded, and a failure
\* otherwise.
C8_OffsetFailurePropagation ==
    op = "get_timezone_offset"
    => (ret.status = "ok"
        <=> /\ args.clockOk
            /\ localtime_r(args.tz, args.seconds).ok
            /\ gmtime_r(args.seconds).ok)

\* C9: one out-of-range policy in chronos_from_utc: fields in their nominal
\* ranges are never rejected, and fields out of range all meet the outcome
\* that month 13 meets, whatever instant they denote.
C9_OneOutOfRangePolicy ==
    (op = "from_utc" /\ ret.status \in {"ok", "error"})
    => /\ Nominal(args.dt) => ret.status # "error"
       /\ ~Nominal(args.dt)
          => ret.status \in {r.status : r \in FromUtcOf(DtOf(1970, 13, 1, 0, 0, 0, 0))}

\* C10: the year of a successful forward conversion is the true year,
\* tm_year + 1900 without wrap-around, and the other fields lie in
\* 1..12, 1..31, 0..23, 0..59, 0..59.
C10_YearNotWrapped ==
    (op \in {"to_utc", "to_local"} /\ ret.status = "ok")
    => LET tm == IF op = "to_utc"
                 THEN gmtime_r(args.seconds).tm
                 ELSE localtime_r(args.tz, args.seconds).tm
       IN  /\ tm.tm_year <= Int32Max - 1900
           /\ ret.dt.year = tm.tm_year + 1900
           /\ ret.dt.month \in 1..12
           /\ ret.dt.day \in 1..31
           /\ ret.dt.hour \in 0..23
           /\ ret.dt.minute \in 0..59
           /\ ret.dt.second \in 0..59

====
